---- MODULE Spec2Model ----
(***************************************************************************)
(* sqlalchemy_filters/models.py: field resolution, model disambiguation    *)
(* and join planning over a query.                                         *)
(*                                                                         *)
(* A query is the pair of sequences the code reads it through:             *)
(* column_descriptions (the selected entities) and _join_entities (the     *)
(* joined ones).  A model class is a string such as "<Customer>", its      *)
(* __name__ a different string ("Customer"); None is Python's None.        *)
(* A field name is a sequence of tokens in which the token "." is the      *)
(* separator character, so "orders.total" is <<"orders", ".", "total">>.   *)
(***************************************************************************)
EXTENDS Naturals, Sequences, FiniteSets

VARIABLES query, op, args, result

vars == <<query, op, args, result>>

\* ------------------------------------------------------------------ bounds
MaxFieldLen == 5
MaxJoins == 2
MaxNodes == 3
MaxNames == 2

\* ------------------------------------------------- the mapping layer fixture
None == "None"

Models == {"<Customer>", "<Order>", "<Item>"}

ModelName(m) ==
    CASE m = "<Customer>" -> "Customer"
      [] m = "<Order>" -> "Order"
      [] m = "<Item>" -> "Item"

Columns(m) ==
    CASE m = "<Customer>" -> {"id", "name"}
      [] m = "<Order>" -> {"id", "total"}
      [] m = "<Item>" -> {"id", "sku"}

RelatedModels(m) ==
    CASE m = "<Customer>" -> [orders |-> "<Order>", items |-> "<Item>"]
      [] m = "<Order>" -> [customer |-> "<Customer>", items |-> "<Item>"]
      [] m = "<Item>" -> [order |-> "<Order>"]

Relationships(m) == DOMAIN RelatedModels(m)

\* every attribute getattr finds on the class: columns, relationships and the
\* declarative attributes that are neither
Attrs(m) == Columns(m) \cup Relationships(m) \cup {"metadata"}

Return(v) == [kind |-> "return", value |-> v]
Raise(e) == [kind |-> "raise", exc |-> e]

\* ------------------------------------------------------------ str helpers
Sep == "."

\* '.' in s
HasSep(s) == \E i \in DOMAIN s : s[i] = Sep

RECURSIVE SplitFrom(_, _, _)
SplitFrom(s, i, cur) ==
    IF i > Len(s) THEN <<cur>>
    ELSE IF s[i] = Sep THEN <<cur>> \o SplitFrom(s, i + 1, <<>>)
    ELSE SplitFrom(s, i + 1, Append(cur, s[i]))

\* s.split('.'): the pieces between the separators, empty pieces kept
Split(s) == SplitFrom(s, 1, <<>>)

\* a piece as a name: one token, the empty string, or (tokens run together)
\* a name no class defines
Piece(p) ==
    IF p = <<>> THEN "" ELSE IF Len(p) = 1 THEN p[1] ELSE "?"

\* -------------------------------------------------------------- Field
get_sqlalchemy_field(model, field_name) ==
    IF HasSep(field_name)
    THEN LET parts == Split(field_name)
         IN  IF Len(parts) # 2
             THEN Raise("ValueError")
             ELSE LET model_field == Piece(parts[1])
                      related_field == Piece(parts[2])
                  IN  IF model_field \in Relationships(model)
                      THEN LET related_model == RelatedModels(model)[model_field]
                           IN  IF related_field \in Attrs(related_model)
                               THEN Return([model |-> related_model,
                                            attr |-> related_field])
                               ELSE Raise("AttributeError")
                      ELSE Raise("FieldNotFound")
    ELSE IF Piece(field_name) \in Columns(model)
         THEN Return([model |-> model, attr |-> Piece(field_name)])
         ELSE Raise("FieldNotFound")

\* ------------------------------------------------------ get_query_models
SeqRange(s) == {s[i] : i \in DOMAIN s}

\* the list the dictionary is built from: selected entities, then joined ones
query_entities(q) == q.entities \o q.joins

\* {model.__name__: model for model in models}: a later model of the same
\* name overwrites an earlier one
get_query_models(q) ==
    LET models == query_entities(q)
        last(n) == CHOOSE i \in DOMAIN models :
                     /\ ModelName(models[i]) = n
                     /\ \A j \in DOMAIN models : ModelName(models[j]) = n => j <= i
    IN  [n \in {ModelName(models[i]) : i \in DOMAIN models} |-> models[last(n)]]

Values(d) == {d[k] : k \in DOMAIN d}

\* ---------------------------------------------------- get_model_from_spec
\* spec.get('model')
SpecModelName(spec) == IF "model" \in DOMAIN spec THEN spec.model ELSE None

\* get_model_from_spec with the default consulted before the model count
get_model_from_spec_default_first(spec, q, default_model) ==
    LET models == get_query_models(q)
        model_name == SpecModelName(spec)
    IN  IF DOMAIN models = {}
        THEN Raise("BadQuery")
        ELSE IF model_name # None
        THEN LET matching == {k \in DOMAIN models : k = model_name}
             IN  IF matching = {}
                 THEN Raise("BadSpec")
                 ELSE Return(models[CHOOSE k \in matching : TRUE])
        ELSE IF default_model # None
        THEN Return(default_model)
        ELSE IF Cardinality(DOMAIN models) = 1
        THEN Return(models[CHOOSE k \in DOMAIN models : TRUE])
        ELSE Raise("BadSpec")

\* get_model_from_spec with the default rescuing a name the query lacks
get_model_from_spec_default_rescues(spec, q, default_model) ==
    LET models == get_query_models(q)
        model_name == SpecModelName(spec)
    IN  IF DOMAIN models = {}
        THEN Raise("BadQuery")
        ELSE IF model_name # None
        THEN LET matching == {k \in DOMAIN models : k = model_name}
             IN  IF matching = {}
                 THEN IF default_model # None
                      THEN Return(default_model)
                      ELSE Raise("BadSpec")
                 ELSE Return(models[CHOOSE k \in matching : TRUE])
        ELSE IF Cardinality(DOMAIN models) = 1
        THEN Return(models[CHOOSE k \in DOMAIN models : TRUE])
        ELSE IF default_model # None
        THEN Return(default_model)
        ELSE Raise("BadSpec")

\* get_model_from_spec with the empty-query test after the name lookup
get_model_from_spec_name_first(spec, q, default_model) ==
    LET models == get_query_models(q)
        model_name == SpecModelName(spec)
    IN  IF model_name # None
        THEN LET matching == {k \in DOMAIN models : k = model_name}
             IN  IF matching = {}
                 THEN Raise("BadSpec")
                 ELSE Return(models[CHOOSE k \in matching : TRUE])
        ELSE IF DOMAIN models = {}
        THEN Raise("BadQuery")
        ELSE IF Cardinality(DOMAIN models) = 1
        THEN Return(models[CHOOSE k \in DOMAIN models : TRUE])
        ELSE IF default_model # None
        THEN Return(default_model)
        ELSE Raise("BadSpec")

get_model_from_spec(spec, q, default_model) ==
    LET models == get_query_models(q)
        model_name == SpecModelName(spec)
    IN  IF DOMAIN models = {}
        THEN Raise("BadQuery")
        ELSE IF model_name # None
        THEN LET matching == {k \in DOMAIN models : k = model_name}
             IN  IF matching = {}
                 THEN Raise("BadSpec")
                 ELSE Return(models[CHOOSE k \in matching : TRUE])
        ELSE IF Cardinality(DOMAIN models) = 1
        THEN Return(models[CHOOSE k \in DOMAIN models : TRUE])
        ELSE IF default_model # None
        THEN Return(default_model)
        ELSE Raise("BadSpec")

\* ------------------------------------------------------------ query.join
\* The query engine's join.  on is the join target: a class attribute
\* [model, attr] or a class.  derivable is the engine's verdict, which this
\* code cannot foresee: a relationship or a mapped class is joined when the
\* engine can derive the join and rejected with InvalidRequestError when it
\* cannot; any other target is no join target, and the engine fails with
\* InvalidRequestError or with another of its errors.
IsJoinTarget(on) ==
    IF "attr" \in DOMAIN on
    THEN on.attr \in Relationships(on.model)
    ELSE on.class \in Models

JoinedEntity(on) ==
    IF "attr" \in DOMAIN on
    THEN RelatedModels(on.model)[on.attr]
    ELSE on.class

query_join(q, on, derivable) ==
    IF IsJoinTarget(on)
    THEN IF derivable
         THEN Return([q EXCEPT !.joins = Append(@, JoinedEntity(on))])
         ELSE Raise("InvalidRequestError")
    ELSE IF derivable
         THEN Raise("ArgumentError")
         ELSE Raise("InvalidRequestError")

\* ---------------------------------------------------------- implicit_join
\* A filter node is a record of the attributes it exposes: a leaf exposes
\* filter_spec (a mapping with a field entry), a combinator exposes filters.
Leaf(f) == [filter_spec |-> [field |-> f]]
Combinator(children) == [filters |-> children]

\* one step of the walk: the new working query and the join attempts made
Step(q, attempts) == [kind |-> "return", value |-> q, attempts |-> attempts]

\* filter_join without the except clause: a rejection propagates
filter_join_propagates(q, spec, model, derivable) ==
    IF "filter_spec" \notin DOMAIN spec
    THEN Raise("AttributeError")
    ELSE LET field == spec.filter_spec.field
         IN  IF HasSep(field)
             THEN LET parts == Split(field)
                  IN  IF Len(parts) # 2
                      THEN Raise("ValueError")
                      ELSE LET field_name == Piece(parts[1])
                           IN  IF field_name \notin Attrs(model)
                               THEN Raise("AttributeError")
                               ELSE LET class_and_field ==
                                            [model |-> model, attr |-> field_name]
                                        r == query_join(q, class_and_field, derivable)
                                    IN  IF r.kind = "return"
                                        THEN Step(r.value,
                                                  <<[on |-> class_and_field,
                                                     before |-> q,
                                                     outcome |-> "joined"]>>)
                                        ELSE r
             ELSE Step(q, <<>>)

filter_join(q, spec, model, derivable) ==
    IF "filter_spec" \notin DOMAIN spec
    THEN Raise("AttributeError")
    ELSE LET field == spec.filter_spec.field
         IN  IF HasSep(field)
             THEN LET parts == Split(field)
                  IN  IF Len(parts) # 2
                      THEN Raise("ValueError")
                      ELSE LET field_name == Piece(parts[1])
                           IN  IF field_name \notin Attrs(model)
                               THEN Raise("AttributeError")
                               ELSE LET class_and_field ==
                                            [model |-> model, attr |-> field_name]
                                        r == query_join(q, class_and_field, derivable)
                                        attempt(o) == [on |-> class_and_field,
                                                       before |-> q, outcome |-> o]
                                    IN  IF r.kind = "return"
                                        THEN Step(r.value, <<attempt("joined")>>)
                                        ELSE IF r.exc = "InvalidRequestError"
                                        THEN Step(q, <<attempt("rejected")>>)
                                        ELSE r
             ELSE Step(q, <<>>)

\* the walk without the inner loop: a combinator's children are not visited
Candidates_top_level_only(filters) ==
    SelectSeq(filters, LAMBDA f1 : "filters" \notin DOMAIN f1)

RECURSIVE Candidates(_)
\* the nodes filter_join is called on, in walk order: a top-level node that
\* exposes filters contributes its children, any other node itself
Candidates(filters) ==
    IF filters = <<>> THEN <<>>
    ELSE LET f1 == Head(filters)
         IN  (IF "filters" \in DOMAIN f1 THEN f1.filters ELSE <<f1>>)
             \o Candidates(Tail(filters))

Outcome(r, trace) ==
    IF r.kind = "return"
    THEN [kind |-> "return", value |-> r.value, trace |-> trace]
    ELSE [kind |-> "raise", exc |-> r.exc, trace |-> trace]

RECURSIVE WalkFrom(_, _, _, _, _, _)
WalkFrom(cands, i, model, oracle, q, trace) ==
    IF i > Len(cands)
    THEN Outcome(Return(q), trace)
    ELSE LET r == filter_join(q, cands[i], model, oracle[i])
         IN  IF r.kind = "raise"
             THEN Outcome(r, trace)
             ELSE WalkFrom(cands, i + 1, model, oracle, r.value,
                           trace \o r.attempts)

implicit_join(q, model, filters, oracle) ==
    WalkFrom(Candidates(filters), 1, model, oracle, q, <<>>)

\* -------------------------------------------------------------- auto_join
\* _decl_class_registry: the mapped classes and the registry's own entry,
\* which is no class and has no __name__
Registry == <<"<Customer>", "<Order>", "<Item>", "_sa_module_registry">>

\* getattr(cls, '__name__', None)
ClassName(cls) == IF cls \in Models THEN ModelName(cls) ELSE None

get_model_class_by_name(registry, name) ==
    LET hits == {i \in DOMAIN registry : ClassName(registry[i]) = name}
    IN  IF hits = {} THEN None
        ELSE registry[CHOOSE i \in hits : \A j \in hits : i <= j]

\* auto_join's loop body without the membership test
auto_join_name_always_joins(q, name, derivable) ==
    LET model == get_model_class_by_name(Registry, name)
        entry(o) == [name |-> name, model |-> model, before |-> q, outcome |-> o]
        r == query_join(q, [class |-> model], derivable)
    IN  IF r.kind = "return"
        THEN Step(r.value, <<entry("joined")>>)
        ELSE IF r.exc = "InvalidRequestError"
        THEN Step(q, <<entry("rejected")>>)
        ELSE r

auto_join_name(q, name, derivable) ==
    LET model == get_model_class_by_name(Registry, name)
        entry(o) == [name |-> name, model |-> model, before |-> q, outcome |-> o]
    IN  IF model \notin Values(get_query_models(q))
        THEN LET r == query_join(q, [class |-> model], derivable)
             IN  IF r.kind = "return"
                 THEN Step(r.value, <<entry("joined")>>)
                 ELSE IF r.exc = "InvalidRequestError"
                 THEN Step(q, <<entry("rejected")>>)
                 ELSE r
        ELSE Step(q, <<entry("present")>>)

RECURSIVE AutoFrom(_, _, _, _, _)
AutoFrom(model_names, i, oracle, q, trace) ==
    IF i > Len(model_names)
    THEN Outcome(Return(q), trace)
    ELSE LET r == auto_join_name(q, model_names[i], oracle[i])
         IN  IF r.kind = "raise"
             THEN Outcome(r, trace)
             ELSE AutoFrom(model_names, i + 1, oracle, r.value,
                           trace \o r.attempts)

auto_join(q, model_names, oracle) ==
    IF query_entities(q) = <<>>
    THEN Outcome(Raise("IndexError"), <<>>)
    ELSE AutoFrom(model_names, 1, oracle, q, <<>>)

\* ================================================================ inputs
SeqsUpTo(S, n) == UNION {[1..k -> S] : k \in 0..n}

Tokens == {Sep, "orders", "total", "name", "metadata"}

\* every field name of at most MaxFieldLen tokens
FieldNames == SeqsUpTo(Tokens, MaxFieldLen)

\* the field names the filter leaves carry
LeafFields ==
    { <<"name">>,
      <<"orders", Sep, "total">>,
      <<"items", Sep, "sku">> }

RECURSIVE ForestOfSize(_, _), NodeOfSize(_, _)
\* the filter lists of exactly n nodes nested at most d deep
ForestOfSize(n, d) ==
    IF n = 0 THEN {<<>>}
    ELSE IF d = 0 THEN {}
    ELSE UNION { { <<x>> \o r : x \in NodeOfSize(k, d), r \in ForestOfSize(n - k, d) }
                 : k \in 1..n }

NodeOfSize(k, d) ==
    (IF k = 1 THEN {Leaf(f) : f \in LeafFields} ELSE {})
    \cup (IF d >= 2 THEN {Combinator(c) : c \in ForestOfSize(k - 1, d - 1)} ELSE {})

FilterLists == UNION {ForestOfSize(n, MaxNodes) : n \in 0..MaxNodes}

ModelNames == {ModelName(m) : m \in Models} \cup {"Ghost"}

\* a filter spec: a mapping with a field entry and, optionally, a model entry
FilterSpecs ==
    {[field |-> <<"name">>]}
    \cup {[field |-> <<"name">>, model |-> n] : n \in ModelNames}

DefaultModels == Models \cup {None}

\* the queries a caller starts from: session.query() over no entity, over
\* one, over two
InitialQueries ==
    {[entities |-> e, joins |-> <<>>] :
        e \in { <<>>, <<"<Customer>">>, <<"<Order>">>, <<"<Customer>", "<Order>">> }}

\* the candidates of a walk at which query.join is called: the places the
\* engine gives a verdict for
JoinSites(filters, model) ==
    LET cands == Candidates(filters)
    IN  {i \in DOMAIN cands :
            /\ "filter_spec" \in DOMAIN cands[i]
            /\ HasSep(cands[i].filter_spec.field)
            /\ Len(Split(cands[i].filter_spec.field)) = 2
            /\ Piece(Split(cands[i].filter_spec.field)[1]) \in Attrs(model)}

\* the engine's verdicts of one call: derivable at the sites in yes
Verdicts(yes) == [i \in 1..(MaxNodes + MaxNames) |-> i \in yes]

\* ================================================================ actions
NoCall == [kind |-> "none"]

Init ==
    /\ query \in InitialQueries
    /\ op = "idle"
    /\ args = NoCall
    /\ result = NoCall

\* Field(model, field_name).get_sqlalchemy_field()
GetSqlalchemyField ==
    /\ op = "idle"
    /\ \E model \in Models, field_name \in FieldNames :
        /\ op' = "get_sqlalchemy_field"
        /\ args' = [model |-> model, field_name |-> field_name]
        /\ result' = get_sqlalchemy_field(model, field_name)
        /\ UNCHANGED query

\* get_model_from_spec(spec, query, default_model)
GetModelFromSpec ==
    /\ op = "idle"
    /\ \E spec \in FilterSpecs, default_model \in DefaultModels :
        /\ op' = "get_model_from_spec"
        /\ args' = [spec |-> spec, query |-> query, default_model |-> default_model]
        /\ result' = get_model_from_spec(spec, query, default_model)
        /\ UNCHANGED query

\* query = implicit_join(query, model, filters): the caller threads the
\* returned query forward, and keeps its own when the call raises
ImplicitJoin ==
    /\ op = "idle"
    /\ \E model \in Models, filters \in FilterLists :
        \E yes \in SUBSET JoinSites(filters, model) :
            LET r == implicit_join(query, model, filters, Verdicts(yes))
            IN  /\ r.kind = "return" => Len(r.value.joins) <= MaxJoins
                /\ op' = "implicit_join"
                /\ args' = [query |-> query, model |-> model, filters |-> filters]
                /\ result' = r
                /\ query' = IF r.kind = "return" THEN r.value ELSE query

\* query = auto_join(query, *model_names)
AutoJoin ==
    /\ op = "idle"
    /\ \E model_names \in SeqsUpTo(ModelNames, MaxNames) :
        \E yes \in SUBSET DOMAIN model_names :
            LET r == auto_join(query, model_names, Verdicts(yes))
            IN  /\ r.kind = "return" => Len(r.value.joins) <= MaxJoins
                /\ op' = "auto_join"
                /\ args' = [query |-> query, model_names |-> model_names]
                /\ result' = r
                /\ query' = IF r.kind = "return" THEN r.value ELSE query

\* the call has returned or raised: the caller goes on with its query
Continue ==
    /\ op # "idle"
    /\ op' = "idle"
    /\ args' = NoCall
    /\ result' = NoCall
    /\ UNCHANGED query

Next == GetModelFromSpec \/ ImplicitJoin \/ AutoJoin \/ Continue

Spec == Init /\ [][Next]_vars

NextField == GetSqlalchemyField \/ Continue

SpecField == Init /\ [][NextField]_vars

\* ============================================================ properties
\* the models a query contains
ModelSet(q) == SeqRange(query_entities(q))

NumSep(s) == Cardinality({i \in DOMAIN s : s[i] = Sep})

ResolvedModel == op = "get_model_from_spec"

\* C1: a spec without a model entry on a query that has models resolves to
\* the query's model when it has exactly one (default or not), to
\* default_model when it has several and a default is supplied, and fails
\* with BadSpec when it has several and no default is supplied.
C1_NoNameResolution ==
    (ResolvedModel /\ "model" \notin DOMAIN args.spec /\ ModelSet(args.query) # {})
    => LET present == ModelSet(args.query)
       IN  /\ Cardinality(present) = 1
                => result.kind = "return" /\ result.value \in present
           /\ (Cardinality(present) >= 2 /\ args.default_model # None)
                => result = Return(args.default_model)
           /\ (Cardinality(present) >= 2 /\ args.default_model = None)
                => result = Raise("BadSpec")

C1_Witness ==
    /\ ResolvedModel /\ "model" \notin DOMAIN args.spec
    /\ Cardinality(ModelSet(args.query)) >= 2
    /\ args.default_model # None
    /\ result = Return(args.default_model)

\* C2: a spec that names a model resolves to the model of that name in the
\* query, and fails with BadSpec when the query has no model of that name,
\* whatever the number of models and whatever default_model is.
C2_NamedResolution ==
    (ResolvedModel /\ "model" \in DOMAIN args.spec /\ ModelSet(args.query) # {})
    => LET named == {m \in ModelSet(args.query) : ModelName(m) = args.spec.model}
       IN  IF named # {}
           THEN result.kind = "return" /\ result.value \in named
           ELSE result = Raise("BadSpec")

C2_Witness ==
    /\ ResolvedModel /\ "model" \in DOMAIN args.spec
    /\ Cardinality(ModelSet(args.query)) >= 2
    /\ args.default_model \in ModelSet(args.query)
    /\ result.kind = "return"
    /\ result.value # args.default_model
    /\ ModelName(result.value) = args.spec.model

\* C3: on a query without models get_model_from_spec fails with BadQuery,
\* for every spec and every default_model.
C3_EmptyQueryBadQuery ==
    (ResolvedModel /\ ModelSet(args.query) = {}) => result = Raise("BadQuery")

C3_Witness ==
    /\ ResolvedModel /\ ModelSet(args.query) = {}
    /\ "model" \in DOMAIN args.spec
    /\ args.default_model # None
    /\ result = Raise("BadQuery")

ResolvedField == op = "get_sqlalchemy_field"

\* C4: "R.C" with one separator resolves to column C of the model related
\* through R when R is a relationship of the model and C a column of the
\* related model, and fails with FieldNotFound otherwise.
C4_RelatedColumnOrFieldNotFound ==
    (ResolvedField /\ NumSep(args.field_name) = 1)
    => LET parts == Split(args.field_name)
           R == Piece(parts[1])
           C == Piece(parts[2])
       IN  IF R \in Relationships(args.model)
              /\ C \in Columns(RelatedModels(args.model)[R])
           THEN result = Return([model |-> RelatedModels(args.model)[R], attr |-> C])
           ELSE result = Raise("FieldNotFound")

\* C5: a field name with two or more separators fails with FieldNotFound.
C5_DeepPathFieldNotFound ==
    (ResolvedField /\ NumSep(args.field_name) >= 2)
    => result = Raise("FieldNotFound")

\* C9: a model get_model_from_spec returns is one of the query's models.
C9_ResolvedModelInQuery ==
    (ResolvedModel /\ result.kind = "return")
    => result.value \in Values(get_query_models(args.query))

JoinPlanned == op = "implicit_join"

IsLeaf(node) == "filter_spec" \in DOMAIN node
IsCombinator(node) == "filters" \in DOMAIN node

RECURSIVE Visited(_)
\* the nodes of a filter list at nesting depth one and two, in order: the
\* top-level leaves and the children of the top-level combinators
Visited(filters) ==
    IF filters = <<>> THEN <<>>
    ELSE (IF IsCombinator(filters[1]) THEN filters[1].filters ELSE <<filters[1]>>)
         \o Visited(Tail(filters))

IsDottedLeaf(node) == IsLeaf(node) /\ HasSep(node.filter_spec.field)

\* the relation a dotted leaf names
Relation(node) == Piece(Split(node.filter_spec.field)[1])

\* a leaf that needs no join, or names a relationship of the model
JoinableLeaf(node, model) ==
    /\ IsLeaf(node)
    /\ \/ ~HasSep(node.filter_spec.field)
       \/ /\ NumSep(node.filter_spec.field) = 1
          /\ Relation(node) \in Relationships(model)

\* the working query after a join attempt of implicit_join
AfterAttempt(e) ==
    IF e.outcome = "joined"
    THEN [e.before EXCEPT !.joins = Append(@, RelatedModels(e.on.model)[e.on.attr])]
    ELSE e.before

\* C6: a rejected join of a dotted leaf leaves the working query as it was
\* and does not end the walk: when every visited node is a leaf that needs
\* no join or names a relationship of the model, implicit_join returns
\* whatever the engine rejects, having attempted every dotted leaf, and when
\* every attempt was rejected it returns the query it was given.
C6_RejectedJoinSwallowed ==
    JoinPlanned
    => LET t == result.trace
           visited == Visited(args.filters)
       IN  /\ \A i \in DOMAIN t :
                 t[i].outcome = "rejected"
                 => IF i < Len(t)
                    THEN t[i + 1].before = t[i].before
                    ELSE result.kind = "return" => result.value = t[i].before
           /\ (\A i \in DOMAIN visited : JoinableLeaf(visited[i], args.model))
                 => /\ result.kind = "return"
                    /\ Len(t) = Len(SelectSeq(visited, IsDottedLeaf))
           /\ (result.kind = "return" /\ \A i \in DOMAIN t : t[i].outcome = "rejected")
                 => result.value = args.query

C6_Witness ==
    /\ JoinPlanned
    /\ result.kind = "return"
    /\ Len(result.trace) = 2
    /\ result.trace[1].outcome = "rejected"
    /\ result.trace[2].outcome = "joined"
    /\ result.value # args.query

\* leaves and combinators of leaves only
OneLevel(filters) ==
    \A i \in DOMAIN filters :
        \/ IsLeaf(filters[i])
        \/ /\ IsCombinator(filters[i])
           /\ \A j \in DOMAIN filters[i].filters : IsLeaf(filters[i].filters[j])

\* C7: over leaves and one-level combinators of leaves, the query
\* implicit_join returns was built by attempting the join model.<relation>
\* of every dotted leaf in walk order, each on the query the previous
\* accepted join returned, and its models are those of the input query and
\* the related models of the accepted joins.
C7_JoinsInWalkOrder ==
    (JoinPlanned /\ OneLevel(args.filters) /\ result.kind = "return")
    => LET t == result.trace
           dotted == SelectSeq(Visited(args.filters), IsDottedLeaf)
       IN  /\ Len(t) = Len(dotted)
           /\ \A i \in DOMAIN t :
                 /\ t[i].on = [model |-> args.model, attr |-> Relation(dotted[i])]
                 /\ t[i].before = IF i = 1 THEN args.query ELSE AfterAttempt(t[i - 1])
           /\ result.value = IF t = <<>> THEN args.query ELSE AfterAttempt(t[Len(t)])
           /\ ModelSet(result.value) =
                 ModelSet(args.query)
                 \cup {RelatedModels(args.model)[t[i].on.attr] :
                          i \in {j \in DOMAIN t : t[j].outcome = "joined"}}

C7_Witness ==
    /\ JoinPlanned
    /\ result.kind = "return"
    /\ args.model = "<Customer>"
    /\ args.query = [entities |-> <<"<Customer>">>, joins |-> <<>>]
    /\ args.filters = << Combinator(<< Leaf(<<"orders", Sep, "total">>),
                                       Leaf(<<"items", Sep, "sku">>) >>) >>
    /\ result.value = [entities |-> <<"<Customer>">>, joins |-> <<"<Order>", "<Item>">>]

AutoJoined == op = "auto_join"

InRegistry(name) == \E m \in Models : ModelName(m) = name

RegistryModel(name) == CHOOSE m \in Models : ModelName(m) = name

\* the working query after auto_join has dealt with a name
AfterName(e) ==
    IF e.outcome = "joined"
    THEN [e.before EXCEPT !.joins = Append(@, RegistryModel(e.name))]
    ELSE e.before

\* C8: auto_join on a query with a model deals with the names from left to
\* right on the working query: it attempts a join for a name exactly when
\* the name's registry model is not among the working query's models, a
\* rejected join leaves the working query as it was and the next name is
\* dealt with, and the query built this way is returned.
C8_AutoJoinSkipsPresent ==
    (AutoJoined /\ ModelSet(args.query) # {})
    => LET t == result.trace
           names == args.model_names
       IN  /\ Len(t) <= Len(names)
           /\ \A i \in DOMAIN t :
                 /\ t[i].name = names[i]
                 /\ t[i].before = IF i = 1 THEN args.query ELSE AfterName(t[i - 1])
                 /\ InRegistry(names[i])
                      => (t[i].outcome = "present"
                            <=> RegistryModel(names[i]) \in ModelSet(t[i].before))
           /\ result.kind = "return"
                 => /\ Len(t) = Len(names)
                    /\ result.value = IF t = <<>> THEN args.query ELSE AfterName(t[Len(t)])
           /\ (\A i \in DOMAIN names : InRegistry(names[i])) => result.kind = "return"

C8_Witness ==
    /\ AutoJoined
    /\ result.kind = "return"
    /\ Len(result.trace) = 2
    /\ args.model_names[1] = args.model_names[2]
    /\ result.trace[1].outcome = "joined"
    /\ result.trace[2].outcome = "present"
    /\ Len(result.value.joins) = Len(args.query.joins) + 1

\* C10: when a child of a top-level combinator is itself a combinator, and
\* the visited leaves need no join or name a relationship of the model, the
\* walk completes and returns a query, and the join attempts are those of
\* the dotted leaves at depth one and two.
C10_NestedCombinatorNotExpanded ==
    LET visited == Visited(args.filters)
    IN  ( /\ JoinPlanned
          /\ \E i \in DOMAIN visited : IsCombinator(visited[i])
          /\ \A i \in DOMAIN visited :
                IsCombinator(visited[i]) \/ JoinableLeaf(visited[i], args.model) )
        => /\ result.kind = "return"
           /\ Len(result.trace) = Len(SelectSeq(visited, IsDottedLeaf))

====
